---- MODULE Spec2Model ----
(***************************************************************************)
(* VoiceForge: FishTTSClient.text_to_speech, the streamed conversion of    *)
(* text to an MP3 file with progress reporting                            *)
(* (src/src/voiceforge/services/fish_tts_client.py, lines 311-537).        *)
(*                                                                         *)
(* One call is modelled as a sequence of steps, one per progress stage of  *)
(* the method.  The remote service, the clock, the file system and the     *)
(* progress callback are the environment: the response status, the chunk   *)
(* sizes, the clock readings and the exceptions they raise are chosen      *)
(* nondeterministically.                                                   *)
(*                                                                         *)
(* Beside it: the convert command that calls it (cli/main.py), two calls   *)
(* in a row on one client, FishTTSClient.get_available_voices with its    *)
(* models cache, and ConfigManager's setters and reset_to_defaults         *)
(* (core/config_manager.py).  Each has its own specification; the          *)
(* variables of the others keep their initial values in it.               *)
(*                                                                         *)
(* Units.  Bytes are exact.  The clock is read in quarter seconds.  The    *)
(* Python floats holding a percentage are kept as exact fixed-point        *)
(* numbers: a percentage p is the integer p * Scale(content_length).       *)
(***************************************************************************)
EXTENDS Integers, Sequences, FiniteSets, TLC

VARIABLES
    pc,                     \* position in text_to_speech
    callback,               \* the progress_callback argument: "none" or "given"
    status,                 \* response.status_code, 0 before a response exists
    content_length,         \* the content-length header: None (-1) or the number in it
    bytes_downloaded,       \* local bytes_downloaded
    now,                    \* last reading of time.time(), quarter seconds
    download_start_time,    \* local download_start_time
    last_progress_update,   \* local last_progress_update
    last_reported_progress, \* local last_reported_progress, fixed point
    emitted,                \* percentages passed to progress_callback, in order
    file,                   \* the file at output_file_path
    file0,                  \* the file at output_file_path before the call
    fileOpen,               \* the handle of `with open(...)` is open
    connOpen,               \* the httpx client / streamed response is open
    received,               \* sizes of the chunks yielded by iter_bytes so far
    streamEnded,            \* iter_bytes was exhausted
    lateChunks,             \* chunks that arrived more than 0.5 s after the last emission
    verified,               \* the check of line 512 passed
    outcome,                \* what the call returned or raised
    cause,                  \* what made the call fail
    voice_or_model,         \* the voice_or_model argument
    char_count,             \* len(text)
    request,                \* the request built: body field reference_id, header model
    total_timeout,          \* local total_timeout, seconds; 0 before it is computed
    connections,            \* httpx.Client() connections opened by this call
    posts,                  \* POST requests issued by this call
    calls,                  \* text_to_speech calls started on this client
    start_time,             \* local start_time
    output_file_path,       \* the output_file_path argument
    overwrite,              \* the --overwrite flag of the convert command
    exit_code,              \* exit status of the convert command, None while it runs
    models_cache,           \* FishTTSClient._models_cache
    cache_timestamp,        \* FishTTSClient._cache_timestamp, seconds
    authorization,          \* the Authorization header of FishTTSClient._client
    clock,                  \* time.time(), seconds
    voice_calls,            \* the get_available_voices calls made, with their results
    config,                 \* ConfigManager._config: its top-level dict
    heap,                   \* the nested dicts that top-level entries refer to
    last_op,                \* the last ConfigManager method called
    config_ops,             \* ConfigManager methods called after construction
    providers_before,       \* the providers entry when reset_to_defaults was called
    input_text,             \* the cleaned text given to prepare_text_for_tts: its
                            \* sentences, each the lengths of its words
    max_length,             \* the max_length argument, 0 for None
    text_chunks             \* the lengths of the chunks returned, <<>> before the call

vars == <<pc, callback, status, content_length, bytes_downloaded, now,
          download_start_time, last_progress_update, last_reported_progress,
          emitted, file, file0, fileOpen, connOpen, received, streamEnded,
          lateChunks, verified, outcome, cause, voice_or_model, char_count,
          request, total_timeout, connections, posts, calls, start_time,
          output_file_path, overwrite, exit_code, models_cache,
          cache_timestamp, authorization, clock, voice_calls, config, heap,
          last_op, config_ops, providers_before, input_text, max_length,
          text_chunks>>

(***************************************************************************)
(* Bounds and input domains                                                *)
(***************************************************************************)
\* chunks one response yields, empty ones included
MaxChunks == 3

\* sizes of the chunks iter_bytes yields (0: an empty chunk)
ChunkSizes == {0, 100, 8192, 1048576, 3145728}

\* clock advance between two readings: 0 s, 0.5 s, 0.75 s, 12 s
ClockSteps == {0, 2, 3, 48}

\* response statuses the service answers with
Statuses == {200, 201, 204, 302, 400, 401, 403, 429, 500}

\* the content-length header is absent
None == -1

\* content-length headers: absent, "0", "200", "8292"
ContentLengths == {None, 0, 200, 8292}

\* the two names line 358 tests for
ReservedModels == {"speech-1.6", "speech-1.5"}

\* voice_or_model arguments: the reserved names, names close to them, the
\* default voice of get_default_voice, the empty string
Voices == ReservedModels \cup
          {"speech-1.4", "Speech-1.6", "b545c585f631496c914815291da4e893", ""}

\* text lengths go up to MaxThousands thousand characters and 999 more
MaxThousands == 30

\* len(text): around every multiple of 1000
Lengths == {k * 1000 + d : k \in 0..MaxThousands, d \in {0, 1, 999}}

(***************************************************************************)
(* Arithmetic                                                              *)
(***************************************************************************)
Min(a, b) == IF a < b THEN a ELSE b

Max(a, b) == IF a > b THEN a ELSE b

\* one megabyte, 1024 * 1024
MB == 1048576

\* clock readings per second
TicksPerSecond == 4

\* fixed-point scale of the percentages without a declared length: every
\* quotient of lines 468-482 is a whole number of 1/(15 * 2^20)
ScaleB == 15 * MB

\* fixed-point scale of the percentages of one call: halves of 1/content_length
\* with a declared positive length (lines 430-434)
Scale(cl) == IF cl > 0 THEN 2 * cl ELSE ScaleB

\* int(x) of a non-negative fixed-point number
IntPart(x, scale) == x \div scale

RECURSIVE SumSizes(_)
SumSizes(s) == IF s = <<>> THEN 0 ELSE Head(s) + SumSizes(Tail(s))

RECURSIVE Segments(_, _)
\* the non-empty chunks of a sequence of sizes, each tagged with its arrival index
Segments(sizes, i) ==
    IF i > Len(sizes) THEN <<>>
    ELSE IF sizes[i] = 0 THEN Segments(sizes, i + 1)
    ELSE <<[id |-> i, size |-> sizes[i]]>> \o Segments(sizes, i + 1)

RECURSIVE ContentSize(_)
ContentSize(c) == IF c = <<>> THEN 0 ELSE Head(c).size + ContentSize(Tail(c))

(***************************************************************************)
(* Exceptions (utils/exceptions.py) and their way out of the method        *)
(***************************************************************************)
AuthenticationError(message) ==
    [kind |-> "AuthenticationError", detail |-> message, status_code |-> 0]

NetworkError(message, code) ==
    [kind |-> "NetworkError", detail |-> message, status_code |-> code]

TTSServiceError(message) ==
    [kind |-> "TTSServiceError", detail |-> message, status_code |-> 0]

\* an exception that is none of the application's: httpx's, OSError, the callback's
Foreign(name) == [kind |-> name, detail |-> name, status_code |-> 0]

Returned == [kind |-> "True", detail |-> "", status_code |-> 0]

Pending == [kind |-> "pending", detail |-> "", status_code |-> 0]

\* what the call returns to report a failure, if it ever did
ReturnedFalse == [kind |-> "False", detail |-> "", status_code |-> 0]

\* the except clauses with `return False` for the exceptions of others
Surface_ReturnsFalse(exc) ==
    IF exc.kind \in {"AuthenticationError", "NetworkError", "TTSServiceError"}
    THEN exc
    ELSE ReturnedFalse

\* the except clauses of lines 533-537
Surface(exc) ==
    IF exc.kind \in {"AuthenticationError", "NetworkError", "TTSServiceError"}
    THEN exc
    ELSE TTSServiceError("Conversion failed")

NoError == [kind |-> "none", detail |-> "", status_code |-> 0]

\* the dispatch without its 429 branch
StatusError_No429(s) ==
    IF s = 401 THEN AuthenticationError("Invalid API key")
    ELSE IF s = 400 THEN TTSServiceError("Bad request")
    ELSE IF s # 200 THEN NetworkError("Fish Audio API error", s)
    ELSE NoError

\* the dispatch with `>= 400` in place of `!= 200` in its last branch
StatusError_From400(s) ==
    IF s = 401 THEN AuthenticationError("Invalid API key")
    ELSE IF s = 400 THEN TTSServiceError("Bad request")
    ELSE IF s = 429 THEN TTSServiceError("Rate limit exceeded")
    ELSE IF s >= 400 THEN NetworkError("Fish Audio API error", s)
    ELSE NoError

\* the status dispatch of lines 394-401
StatusError(s) ==
    IF s = 401 THEN AuthenticationError("Invalid API key")
    ELSE IF s = 400 THEN TTSServiceError("Bad request")
    ELSE IF s = 429 THEN TTSServiceError("Rate limit exceeded")
    ELSE IF s # 200 THEN NetworkError("Fish Audio API error", s)
    ELSE NoError

(***************************************************************************)
(* The request, lines 345-375                                              *)
(***************************************************************************)
\* a body field or header the request does not carry
Unset == "<unset>"

\* the routing with speech-1.6 as the only reserved name
BuildRequest_OnlyNewest(v) ==
    IF v # "" /\ v # "speech-1.6"
    THEN [reference_id |-> v, model |-> Unset]
    ELSE [reference_id |-> Unset, model |-> v]

\* lines 357-363: reference_id in the body, or the model header
BuildRequest(v) ==
    IF v # "" /\ v \notin ReservedModels
    THEN [reference_id |-> v, model |-> Unset]
    ELSE [reference_id |-> Unset, model |-> v]

\* the path made of the output directory and the generated file name
DesiredPath == "article_fish_audio_voice.mp3"

\* the request before it is built
NoRequest == [reference_id |-> Unset, model |-> Unset]

\* the timeout without the cap of line 374
TotalTimeout_NoCap(n) == 60 + (n \div 1000) * 10

\* total_timeout of lines 372-375, seconds
TotalTimeout(n) == 60 + Min(240, (n \div 1000) * 10)

(***************************************************************************)
(* ConfigManager (core/config_manager.py): dicts and references to them    *)
(***************************************************************************)
Providers == {"fish_audio", "openai"}

\* a provider without a stored API key
NoKey == <<>>

\* the providers dict with no provider configured
NoProviders == [p \in Providers |-> NoKey]

\* DEFAULT_CONFIG, lines 29-46: the class attribute's top-level dict; its
\* nested dicts are the objects D.output, D.ui, D.providers of the heap
DEFAULT_CONFIG ==
    [default_provider |-> "fish_audio", output |-> "D.output", ui |-> "D.ui",
     providers |-> "D.providers"]

\* the nested dicts as the class body creates them, and the dicts json.load
\* creates from a configuration file saved with the default values
ClassHeap ==
    [o \in {"D.output", "D.ui", "D.providers", "F.output", "F.ui", "F.providers"} |->
        IF o \in {"D.output", "F.output"}
        THEN [default_directory |-> "./voiceforge_output"]
        ELSE IF o \in {"D.ui", "F.ui"} THEN [theme |-> "dark"]
        ELSE NoProviders]

\* no ConfigManager constructed yet
NoConfig == [default_provider |-> Unset, output |-> Unset, ui |-> Unset,
             providers |-> Unset]

\* dict.copy(): a new top-level dict holding the same references
DictCopy(d) == d

\* Fernet encryption of an API key, lines 251-252
Encrypt(api_key) == <<"fernet", api_key>>

(***************************************************************************)
(* The file system                                                         *)
(***************************************************************************)
Absent == [exists |-> FALSE, content |-> <<>>]

\* a file left at the destination by an earlier run (arrival index 0)
OldFile == [exists |-> TRUE, content |-> <<[id |-> 0, size |-> 7]>>]

\* open(output_file_path, 'ab'): the old content is kept
OpenForWriting_Append(f) == [exists |-> TRUE, content |-> f.content]

\* the file created if absent and opened without truncation
OpenForWriting_NoTruncate(f) == [f EXCEPT !.exists = TRUE]

\* open(output_file_path, 'wb'), line 417: create or truncate
OpenForWriting(f) == [exists |-> TRUE, content |-> <<>>]

\* a write that replaces the content instead of appending to it
WriteChunk_Overwrite(f, seg) == [f EXCEPT !.content = <<seg>>]

\* output_file.write(chunk), lines 425 and 457
WriteChunk(f, seg) == [f EXCEPT !.content = Append(@, seg)]

\* the check without its size test
FileSaved_ExistsOnly(f) == f.exists

\* the check of lines 512 and 524
FileSaved(f) == f.exists /\ ContentSize(f.content) # 0

(***************************************************************************)
(* Progress with a declared content length, lines 429-447                  *)
(***************************************************************************)
\* current_progress without the cap of line 435
CurrentProgressA_Uncapped(bytes, cl, last) ==
    Max(40 * 2 * cl + 100 * bytes, last + cl)

\* current_progress with the download worth 25 points instead of 50
CurrentProgressA_HalfWeight(bytes, cl, last) ==
    Min(90 * 2 * cl, Max(40 * 2 * cl + 50 * bytes, last + cl))

\* current_progress of lines 430-435, in units of 1/(2 * cl)
CurrentProgressA(bytes, cl, last) ==
    Min(90 * 2 * cl, Max(40 * 2 * cl + 100 * bytes, last + cl))

\* the test with any advance reported
ReportsA_Any(current, cl, last) == current > last

\* the test of line 445
ReportsA(current, cl, last) == current > last + 2 * cl

(***************************************************************************)
(* Progress without a declared content length, lines 462-503               *)
(***************************************************************************)
\* min(points, elapsed / seconds * points), lines 473, 477, 481
TimeFactor(elapsed, points, seconds) ==
    IF elapsed >= seconds * TicksPerSecond
    THEN points * ScaleB
    ELSE elapsed * points * (ScaleB \div (seconds * TicksPerSecond))

\* min(points, size_mb * weight), lines 474, 478, 482
SizeFactor(bytes, points, weight) ==
    Min(points * ScaleB, bytes * weight * (ScaleB \div MB))

\* estimated_progress with the factors of the small tier whatever the size
EstimatedProgress_NoTiers(bytes, elapsed) ==
    40 * ScaleB + TimeFactor(elapsed, 30, 12) + SizeFactor(bytes, 20, 8)

\* estimated_progress of lines 471-485
EstimatedProgress(bytes, elapsed) ==
    IF bytes > 2 * MB
    THEN 40 * ScaleB + TimeFactor(elapsed, 40, 8) + SizeFactor(bytes, 10, 2)
    ELSE IF bytes > MB
    THEN 40 * ScaleB + TimeFactor(elapsed, 35, 10) + SizeFactor(bytes, 15, 3)
    ELSE 40 * ScaleB + TimeFactor(elapsed, 30, 12) + SizeFactor(bytes, 20, 8)

\* current_progress without the floor of line 488
CurrentProgressB_NoFloor(bytes, elapsed, last) ==
    Min(90 * ScaleB, EstimatedProgress(bytes, elapsed))

\* current_progress of lines 488-491
CurrentProgressB(bytes, elapsed, last) ==
    Min(90 * ScaleB, Max(EstimatedProgress(bytes, elapsed), last + ScaleB))

\* the test with the clock alone
UpdateDue_TimeOnly(current_time, last_update, bytes) ==
    current_time - last_update > 2

\* the test of lines 463-464
UpdateDue(current_time, last_update, bytes) ==
    \/ current_time - last_update > 2
    \/ bytes % (64 * 1024) = 0

\* the test passed by a value equal to the last one
ReportsB_AtLeast(current, last) == current >= last

\* the test of line 500
ReportsB(current, last) == current > last

(***************************************************************************)
(* Steps of text_to_speech                                                 *)
(***************************************************************************)
\* the method left with the client and the file never released
Leave_LeavesOpen(result, why) ==
    /\ pc' = "done"
    /\ outcome' = result
    /\ cause' = why
    /\ UNCHANGED <<fileOpen, connOpen>>

\* The method is left by an exception: the with blocks of lines 378, 382 and
\* 417 release the client, the response and the file on the way out.
Leave(result, why) ==
    /\ pc' = "done"
    /\ outcome' = result
    /\ cause' = why
    /\ fileOpen' = FALSE
    /\ connOpen' = FALSE

\* An exception raised inside the try leaves through lines 533-537.
Raise(exc, why) == Leave(Surface(exc), why)

\* `if progress_callback: progress_callback(p, ...)`: nothing without a
\* callback, else the callback is invoked and returns
Report(p) ==
    emitted' = IF callback = "none" THEN emitted ELSE Append(emitted, p)

\* the same invocation raising: the exception leaves the method
ReportRaises(p) ==
    /\ callback = "given"
    /\ emitted' = Append(emitted, p)
    /\ Raise(Foreign("Exception"), "callback")

session == <<bytes_downloaded, now, download_start_time, last_progress_update,
             last_reported_progress, lateChunks>>

\* the state outside text_to_speech
voices == <<models_cache, cache_timestamp, authorization, clock, voice_calls>>

settings == <<config, heap, last_op, config_ops, providers_before>>

texts == <<input_text, max_length, text_chunks>>

outside == <<overwrite, exit_code, voices, settings, texts>>

\* the arguments of the call and what is outside it, which no step assigns
inputs == <<callback, voice_or_model, char_count, calls, output_file_path, outside>>

\* the request and what was sent of it
wire == <<request, total_timeout, connections, posts, start_time>>

\* lines 338-363: progress 5, build the request
Preparing ==
    /\ pc = "start"
    /\ start_time' = now
    /\ \/ /\ Report(5)
          /\ request' = BuildRequest(voice_or_model)
          /\ pc' = "prepared"
          /\ UNCHANGED <<outcome, cause, fileOpen, connOpen>>
       \/ /\ ReportRaises(5)
          /\ UNCHANGED request
    /\ UNCHANGED <<total_timeout, connections, posts>>
    /\ UNCHANGED <<inputs, status, content_length, session, file, file0,
                   received, streamEnded, verified>>

\* lines 365-378: progress 10, the timeout, the client
Sending ==
    /\ pc = "prepared"
    /\ \/ /\ Report(10)
          /\ total_timeout' = TotalTimeout(char_count)
          /\ pc' = "client"
          /\ connOpen' = TRUE
          /\ connections' = connections + 1
          /\ UNCHANGED <<outcome, cause, fileOpen>>
       \/ /\ ReportRaises(10)
          /\ UNCHANGED <<total_timeout, connections>>
    /\ UNCHANGED <<request, posts, start_time>>
    /\ UNCHANGED <<inputs, status, content_length, session, file, file0,
                   received, streamEnded, verified>>

\* the POST sent again after a connection failure
Connecting_Retry ==
    /\ pc = "client"
    /\ \/ /\ Report(15)
          /\ posts' = posts + 1
          /\ \/ \E s \in Statuses, cl \in ContentLengths :
                   /\ status' = s
                   /\ content_length' = cl
                   /\ pc' = "response"
             \/ UNCHANGED <<pc, status, content_length>>
          /\ UNCHANGED <<outcome, cause, fileOpen, connOpen>>
       \/ /\ ReportRaises(15)
          /\ UNCHANGED <<status, content_length, posts>>
    /\ UNCHANGED <<request, total_timeout, connections, start_time>>
    /\ UNCHANGED <<inputs, session, file, file0, received, streamEnded, verified>>

\* lines 379-388: progress 15, then the streamed POST, which raises
\* (connect error, timeout) or yields the response headers
Connecting ==
    /\ pc = "client"
    /\ \/ /\ Report(15)
          /\ posts' = posts + 1
          /\ \/ \E s \in Statuses, cl \in ContentLengths :
                   /\ status' = s
                   /\ content_length' = cl
                   /\ pc' = "response"
                   /\ UNCHANGED <<outcome, cause, fileOpen, connOpen>>
             \/ /\ Raise(Foreign("ConnectError"), "connection")
                /\ UNCHANGED <<status, content_length>>
       \/ /\ ReportRaises(15)
          /\ UNCHANGED <<status, content_length, posts>>
    /\ UNCHANGED <<request, total_timeout, connections, start_time>>
    /\ UNCHANGED <<inputs, session, file, file0, received, streamEnded, verified>>

\* the response accepted whatever its status
Processing_IgnoresStatus ==
    /\ pc = "response"
    /\ \/ /\ Report(25)
          /\ pc' = "accepted"
          /\ UNCHANGED <<outcome, cause, fileOpen, connOpen>>
       \/ ReportRaises(25)
    /\ UNCHANGED <<inputs, wire, status, content_length, session, file, file0,
                   received, streamEnded, verified>>

\* lines 390-401: progress 25, then the status dispatch
Processing ==
    /\ pc = "response"
    /\ \/ /\ Report(25)
          /\ IF StatusError(status) # NoError
             THEN Raise(StatusError(status), "status")
             ELSE /\ pc' = "accepted"
                  /\ UNCHANGED <<outcome, cause, fileOpen, connOpen>>
       \/ ReportRaises(25)
    /\ UNCHANGED <<inputs, wire, status, content_length, session, file, file0,
                   received, streamEnded, verified>>

\* the session's locals with the byte counter left as it was found
NewSession_KeepsCounter ==
    /\ download_start_time' = now
    /\ last_progress_update' = now
    /\ UNCHANGED bytes_downloaded
    /\ last_reported_progress' = 40 * Scale(content_length)

\* lines 411-415: the locals of the download, assigned before the loop
NewSession ==
    /\ download_start_time' = now
    /\ last_progress_update' = now
    /\ bytes_downloaded' = 0
    /\ last_reported_progress' = 40 * Scale(content_length)

\* lines 403-417: progress 40, the session's locals, open the file
Receiving ==
    /\ pc = "accepted"
    /\ \/ /\ Report(40)
          /\ \/ /\ file' = OpenForWriting(file)
                /\ fileOpen' = TRUE
                /\ NewSession
                /\ pc' = "stream"
                /\ UNCHANGED <<outcome, cause, connOpen>>
             \/ /\ Raise(Foreign("OSError"), "write")
                /\ UNCHANGED <<file, download_start_time, last_progress_update,
                               bytes_downloaded, last_reported_progress>>
       \/ /\ ReportRaises(40)
          /\ UNCHANGED <<file, download_start_time, last_progress_update,
                         bytes_downloaded, last_reported_progress>>
    /\ UNCHANGED <<inputs, wire, status, content_length, now, lateChunks, file0,
                   received, streamEnded, verified>>

\* the guard passed by a declared length of 0
ProgressTracked_NoZeroTest(cl) == callback # "none"

\* `if progress_callback and content_length > 0`, line 429
ProgressTracked(cl) == callback # "none" /\ cl > 0

\* lines 418-447: one iteration of the loop with a declared content length; the
\* division of line 430 raises ZeroDivisionError on a length of 0
StreamChunkDeclared ==
    /\ pc = "stream"
    /\ content_length # None
    /\ Len(received) < MaxChunks
    /\ \E size \in ChunkSizes :
         /\ received' = Append(received, size)
         /\ IF size = 0
            THEN UNCHANGED <<pc, outcome, cause, fileOpen, connOpen, file,
                             bytes_downloaded, last_reported_progress, emitted>>
            ELSE
              \/ /\ Raise(Foreign("OSError"), "write")
                 /\ UNCHANGED <<file, bytes_downloaded, last_reported_progress,
                                emitted>>
              \/ /\ file' = WriteChunk(file, [id |-> Len(received) + 1, size |-> size])
                 /\ bytes_downloaded' = bytes_downloaded + size
                 /\ LET current == CurrentProgressA(bytes_downloaded', content_length,
                                                    last_reported_progress)
                    IN  IF ~ProgressTracked(content_length)
                        THEN UNCHANGED <<pc, outcome, cause, fileOpen, connOpen,
                                         last_reported_progress, emitted>>
                        ELSE IF content_length = 0
                        THEN /\ Raise(Foreign("ZeroDivisionError"), "division")
                             /\ UNCHANGED <<last_reported_progress, emitted>>
                        ELSE IF ReportsA(current, content_length, last_reported_progress)
                        THEN
                          \/ /\ Report(IntPart(current, Scale(content_length)))
                             /\ last_reported_progress' = current
                             /\ UNCHANGED <<pc, outcome, cause, fileOpen, connOpen>>
                          \/ /\ ReportRaises(IntPart(current, Scale(content_length)))
                             /\ UNCHANGED last_reported_progress
                        ELSE UNCHANGED <<pc, outcome, cause, fileOpen, connOpen,
                                         last_reported_progress, emitted>>
    /\ UNCHANGED <<inputs, wire, status, content_length, now, download_start_time,
                   last_progress_update, lateChunks, file0, streamEnded, verified>>

\* lines 448-503: one iteration of the loop without a declared content length
StreamChunkUndeclared ==
    /\ pc = "stream"
    /\ content_length = None
    /\ Len(received) < MaxChunks
    /\ \E size \in ChunkSizes :
         /\ received' = Append(received, size)
         /\ IF size = 0
            THEN UNCHANGED <<pc, outcome, cause, fileOpen, connOpen, file,
                             bytes_downloaded, now, last_progress_update,
                             last_reported_progress, lateChunks, emitted>>
            ELSE
              \/ /\ Raise(Foreign("OSError"), "write")
                 /\ UNCHANGED <<file, bytes_downloaded, now, last_progress_update,
                                last_reported_progress, lateChunks, emitted>>
              \/ \E step \in ClockSteps :
                 /\ file' = WriteChunk(file, [id |-> Len(received) + 1, size |-> size])
                 /\ bytes_downloaded' = bytes_downloaded + size
                 /\ now' = now + step
                 /\ lateChunks' = IF callback # "none" /\ now' - last_progress_update > 2
                                  THEN lateChunks + 1 ELSE lateChunks
                 /\ LET current == CurrentProgressB(bytes_downloaded',
                                                    now' - download_start_time,
                                                    last_reported_progress)
                    IN  IF /\ callback # "none"
                           /\ UpdateDue(now', last_progress_update, bytes_downloaded')
                           /\ ReportsB(current, last_reported_progress)
                        THEN
                          \/ /\ Report(IntPart(current, ScaleB))
                             /\ last_reported_progress' = current
                             /\ last_progress_update' = now'
                             /\ UNCHANGED <<pc, outcome, cause, fileOpen, connOpen>>
                          \/ /\ ReportRaises(IntPart(current, ScaleB))
                             /\ UNCHANGED <<last_reported_progress, last_progress_update>>
                        ELSE UNCHANGED <<pc, outcome, cause, fileOpen, connOpen,
                                         last_reported_progress, last_progress_update,
                                         emitted>>
    /\ UNCHANGED <<inputs, wire, status, content_length, download_start_time, file0,
                   streamEnded, verified>>

\* the stream breaking with the partial file removed on the way out
StreamBreaks_RemovesFile ==
    /\ pc = "stream"
    /\ Raise(Foreign("ReadError"), "read")
    /\ file' = Absent
    /\ UNCHANGED <<inputs, wire, status, content_length, session, emitted, file0,
                   received, streamEnded, verified>>

\* iter_bytes raises while the body is read (reset, read timeout), lines 421, 453
StreamBreaks ==
    /\ pc = "stream"
    /\ Raise(Foreign("ReadError"), "read")
    /\ UNCHANGED <<inputs, wire, status, content_length, session, emitted, file, file0,
                   received, streamEnded, verified>>

\* the caller interrupts while the body is streamed: KeyboardInterrupt is no
\* Exception, so it passes the except clauses of lines 533-537 as it is
Interrupt ==
    /\ pc = "stream"
    /\ Leave(Foreign("KeyboardInterrupt"), "interrupt")
    /\ UNCHANGED <<inputs, wire, status, content_length, session, emitted, file,
                   file0, received, streamEnded, verified>>

\* the loop left with the file and the response still held
StreamEnds_KeepsOpen ==
    /\ pc = "stream"
    /\ streamEnded' = TRUE
    /\ pc' = "verify"
    /\ UNCHANGED <<inputs, wire, status, content_length, session, emitted, file, file0,
                   received, verified, outcome, cause, fileOpen, connOpen>>

\* iter_bytes is exhausted: the with blocks of lines 417, 382, 378 are left
StreamEnds ==
    /\ pc = "stream"
    /\ streamEnded' = TRUE
    /\ fileOpen' = FALSE
    /\ connOpen' = FALSE
    /\ pc' = "verify"
    /\ UNCHANGED <<inputs, wire, status, content_length, session, emitted, file, file0,
                   received, verified, outcome, cause>>

\* lines 508-516: progress 95, then the file check
Verifying ==
    /\ pc = "verify"
    /\ \/ /\ Report(95)
          /\ IF FileSaved(file)
             THEN /\ verified' = TRUE
                  /\ pc' = "verified"
                  /\ UNCHANGED <<outcome, cause, fileOpen, connOpen>>
             ELSE /\ Raise(TTSServiceError("Failed to save audio file"), "empty")
                  /\ UNCHANGED verified
       \/ /\ ReportRaises(95)
          /\ UNCHANGED verified
    /\ UNCHANGED <<inputs, wire, status, content_length, session, file, file0,
                   received, streamEnded>>

\* lines 518-531: progress 100, the second file check, return True
Completing ==
    /\ pc = "verified"
    /\ \/ /\ Report(100)
          /\ IF FileSaved(file)
             THEN /\ pc' = "done"
                  /\ outcome' = Returned
                  /\ UNCHANGED <<cause, fileOpen, connOpen>>
             ELSE Raise(TTSServiceError("Failed to save audio file"), "empty")
       \/ ReportRaises(100)
    /\ UNCHANGED <<inputs, wire, status, content_length, session, file, file0,
                   received, streamEnded, verified>>

\* the state before anything was called, the file system chosen
NothingCalled ==
    /\ file = file0
    /\ status = 0
    /\ content_length = None
    /\ bytes_downloaded = 0
    /\ now = 0
    /\ download_start_time = 0
    /\ last_progress_update = 0
    /\ last_reported_progress = 0
    /\ emitted = <<>>
    /\ fileOpen = FALSE
    /\ connOpen = FALSE
    /\ received = <<>>
    /\ streamEnded = FALSE
    /\ lateChunks = 0
    /\ verified = FALSE
    /\ outcome = Pending
    /\ cause = "none"
    /\ request = NoRequest
    /\ total_timeout = 0
    /\ start_time = 0
    /\ connections = 0
    /\ posts = 0
    /\ calls = 1
    /\ exit_code = None
    /\ models_cache = "None"
    /\ cache_timestamp = None
    /\ authorization = "None"
    /\ clock = 1
    /\ voice_calls = <<>>
    /\ config = NoConfig
    /\ heap = ClassHeap
    /\ last_op = "none"
    /\ config_ops = 0
    /\ providers_before = NoProviders
    /\ input_text = <<>>
    /\ max_length = 0
    /\ text_chunks = <<>>

\* the state in which the first call on a client begins, its arguments chosen
FirstCall ==
    /\ pc = "start"
    /\ output_file_path = DesiredPath
    /\ overwrite = FALSE
    /\ NothingCalled

\* one call with the default voice of get_default_voice and a text of 15000
\* characters, with or without a callback, over an absent or existing file
Init ==
    /\ callback \in {"none", "given"}
    /\ file0 \in {Absent, OldFile}
    /\ voice_or_model = "b545c585f631496c914815291da4e893"
    /\ char_count = 15000
    /\ FirstCall

Next ==
    \/ Preparing
    \/ Sending
    \/ Connecting
    \/ Processing
    \/ Receiving
    \/ StreamChunkDeclared
    \/ StreamChunkUndeclared
    \/ StreamBreaks
    \/ Interrupt
    \/ StreamEnds
    \/ Verifying
    \/ Completing

Spec == Init /\ [][Next]_vars

(***************************************************************************)
(* Two calls on one client                                                 *)
(***************************************************************************)
\* The caller invokes text_to_speech again with the same arguments once the
\* first call has ended.  The service answers anew and the callback starts a
\* new record; the file system and the clock go on.  What the method's locals
\* held is left where it was, to be overwritten by the assignments of the new
\* call (a local of a new invocation has no value before them).
CallAgain ==
    /\ pc = "done"
    /\ calls = 1
    /\ calls' = 2
    /\ pc' = "start"
    /\ file0' = file
    /\ status' = 0
    /\ content_length' = None
    /\ received' = <<>>
    /\ streamEnded' = FALSE
    /\ emitted' = <<>>
    /\ lateChunks' = 0
    /\ verified' = FALSE
    /\ outcome' = Pending
    /\ cause' = "none"
    /\ connections' = 0
    /\ posts' = 0
    /\ UNCHANGED <<callback, voice_or_model, char_count, file, fileOpen, connOpen,
                   output_file_path, outside, now, bytes_downloaded, download_start_time, last_progress_update,
                   last_reported_progress, request, total_timeout, start_time>>

\* the service and the clock of the two-call runs: statuses 200 and 401, no
\* declared length or 200 bytes, chunks of 0, 100 and 2^20 bytes, at most
\* MaxChunks - 1 of them, clock readings 0 or 0.75 s apart
SmallService ==
    /\ status' \in {0, 200, 401}
    /\ content_length' \in {None, 200}
    /\ Len(received') < MaxChunks
    /\ \A i \in 1..Len(received') : received'[i] \in {0, 100, 1048576}
    /\ now' - now \in {0, 3}

TwoCallInit ==
    /\ callback = "given"
    /\ file0 \in {Absent, OldFile}
    /\ voice_or_model = "b545c585f631496c914815291da4e893"
    /\ char_count = 15000
    /\ FirstCall

TwoCallNext ==
    \/ Preparing /\ SmallService
    \/ Sending /\ SmallService
    \/ Connecting /\ SmallService
    \/ Processing /\ SmallService
    \/ Receiving /\ SmallService
    \/ StreamChunkDeclared /\ SmallService
    \/ StreamChunkUndeclared /\ SmallService
    \/ StreamBreaks /\ SmallService
    \/ Interrupt /\ SmallService
    \/ StreamEnds /\ SmallService
    \/ Verifying /\ SmallService
    \/ Completing /\ SmallService
    \/ CallAgain /\ SmallService

TwoCallSpec == TwoCallInit /\ [][TwoCallNext]_vars

\* the request phase alone, for every voice and every text length
RequestInit ==
    /\ callback \in {"none", "given"}
    /\ file0 = Absent
    /\ voice_or_model \in Voices
    /\ char_count \in Lengths
    /\ FirstCall

RequestNext ==
    \/ Preparing
    \/ Sending
    \/ Connecting

RequestSpec == RequestInit /\ [][RequestNext]_vars

(***************************************************************************)
(* The convert command, cli/main.py lines 94-342                           *)
(***************************************************************************)
\* OutputHandler.get_output_path, lines 259-278: the directory joined with the
\* custom or generated file name; neither the file system nor a flag is read
get_output_path(directory_and_name) == directory_and_name

\* lines 234-241: the output path is determined, then (lines 297-305)
\* text_to_speech is called with it and with a progress callback
ResolveOutput ==
    /\ pc = "convert"
    /\ output_file_path' = get_output_path(DesiredPath)
    /\ pc' = "start"
    /\ UNCHANGED <<callback, voice_or_model, char_count, calls, outside, wire,
                   status, content_length, session, emitted, file, file0, fileOpen,
                   connOpen, received, streamEnded, verified, outcome, cause>>

\* lines 307-342: success is reported, a failure ends the command with
\* sys.exit(1)
ExitCommand ==
    /\ pc = "done"
    /\ pc' = "exited"
    /\ exit_code' = IF outcome = Returned THEN 0 ELSE 1
    /\ UNCHANGED <<callback, voice_or_model, char_count, calls, output_file_path,
                   overwrite, voices, settings, texts, wire, status, content_length, session, emitted, file,
                   file0, fileOpen, connOpen, received, streamEnded, verified,
                   outcome, cause>>

\* the command with and without --overwrite, the output path absent or taken
ConvertInit ==
    /\ pc = "convert"
    /\ callback = "given"
    /\ file0 \in {Absent, OldFile}
    /\ voice_or_model = "b545c585f631496c914815291da4e893"
    /\ char_count = 15000
    /\ output_file_path = Unset
    /\ overwrite \in BOOLEAN
    /\ NothingCalled

ConvertNext ==
    \/ ResolveOutput
    \/ Preparing /\ SmallService
    \/ Sending /\ SmallService
    \/ Connecting /\ SmallService
    \/ Processing /\ SmallService
    \/ Receiving /\ SmallService
    \/ StreamChunkDeclared /\ SmallService
    \/ StreamChunkUndeclared /\ SmallService
    \/ StreamBreaks /\ SmallService
    \/ Interrupt /\ SmallService
    \/ StreamEnds /\ SmallService
    \/ Verifying /\ SmallService
    \/ Completing /\ SmallService
    \/ ExitCommand

ConvertSpec == ConvertInit /\ [][ConvertNext]_vars

(***************************************************************************)
(* FishTTSClient.get_available_voices, lines 62-120                        *)
(***************************************************************************)
\* get_available_voices calls in one run
MaxVoiceCalls == 3

\* the clock is followed up to this reading, seconds
ClockLimit == 5400

\* API keys: one the service accepts, one it answers with 401
ApiKeys == {"valid", "revoked"}

\* what a request meets: a status, or no answer at all (Unset)
Answers(key) == IF key = "revoked" THEN {"401", Unset} ELSE {"200", "500", Unset}

\* the limit argument: its default and a larger one
Limits == {20, 50}

\* the cache trusted for half an hour
IsCacheValid_HalfHour ==
    /\ models_cache # "None"
    /\ cache_timestamp # None
    /\ cache_timestamp # 0
    /\ clock - cache_timestamp < 1800

\* _is_cache_valid, lines 116-120
IsCacheValid ==
    /\ models_cache # "None"
    /\ cache_timestamp # None
    /\ cache_timestamp # 0
    /\ clock - cache_timestamp < 3600

\* _process_models_response(models_data, limit): the first `limit` models
ProcessModelsResponse(limit) ==
    IF limit = 20 THEN "the first 20 models" ELSE "the first 50 models"

\* lines 92-113 for one answer of the service
VoicesResult(answer, limit) ==
    IF answer = "401" THEN "AuthenticationError"
    ELSE IF answer = Unset THEN "default models"
    ELSE IF answer # "200" THEN "NetworkError"
    ELSE ProcessModelsResponse(limit)

\* one call of get_available_voices
GetAvailableVoices ==
    /\ Len(voice_calls) < MaxVoiceCalls
    /\ \E key \in ApiKeys, limit \in Limits :
         IF IsCacheValid
         THEN /\ voice_calls' = Append(voice_calls,
                     [key |-> key, limit |-> limit, at |-> clock,
                      answer |-> "no request", result |-> models_cache])
              /\ UNCHANGED <<models_cache, cache_timestamp, authorization>>
         ELSE \E answer \in Answers(key) :
              /\ authorization' = key
              /\ voice_calls' = Append(voice_calls,
                     [key |-> key, limit |-> limit, at |-> clock,
                      answer |-> answer, result |-> VoicesResult(answer, limit)])
              /\ IF answer = "200"
                 THEN /\ models_cache' = VoicesResult(answer, limit)
                      /\ cache_timestamp' = clock
                 ELSE UNCHANGED <<models_cache, cache_timestamp>>
    /\ UNCHANGED <<pc, callback, voice_or_model, char_count, calls, output_file_path,
                   overwrite, exit_code, clock, settings, texts, wire, status, content_length, session,
                   emitted, file, file0, fileOpen, connOpen, received, streamEnded,
                   verified, outcome, cause>>

\* time passes between two calls: just under and just over half an hour
Tick ==
    /\ \E step \in {1799, 1801} :
         /\ clock + step <= ClockLimit
         /\ clock' = clock + step
    /\ UNCHANGED <<pc, callback, voice_or_model, char_count, calls, output_file_path,
                   overwrite, exit_code, models_cache, cache_timestamp, authorization,
                   voice_calls, settings, texts, wire, status, content_length, session, emitted, file,
                   file0, fileOpen, connOpen, received, streamEnded, verified,
                   outcome, cause>>

\* a client just constructed (lines 50-56), nothing called on it
Idle ==
    /\ pc = "idle"
    /\ callback = "none"
    /\ file0 = Absent
    /\ voice_or_model = "b545c585f631496c914815291da4e893"
    /\ char_count = 0
    /\ output_file_path = Unset
    /\ overwrite = FALSE
    /\ NothingCalled

VoicesNext ==
    \/ GetAvailableVoices
    \/ Tick

VoicesSpec == Idle /\ [][VoicesNext]_vars

(***************************************************************************)
(* ConfigManager: construction, the setters, reset_to_defaults             *)
(***************************************************************************)
\* ConfigManager methods called on one instance after its construction
MaxConfigOps == 3

\* everything that belongs to the conversion
conversion == <<pc, callback, voice_or_model, char_count, calls, output_file_path,
                overwrite, exit_code, texts, wire, status, content_length, session,
                emitted, file, file0, fileOpen, connOpen, received, streamEnded,
                verified, outcome, cause>>

Directories == {"./voiceforge_output", "/tmp/out"}

Themes == {"dark", "light"}

\* __init__ (line 74) and _load_config, lines 110-128: a copy of
\* DEFAULT_CONFIG, updated with the dicts of config.json when the file exists
Construct ==
    /\ last_op = "none"
    /\ \E file_exists \in BOOLEAN :
         config' = IF file_exists
                   THEN [DictCopy(DEFAULT_CONFIG) EXCEPT !.output = "F.output",
                            !.ui = "F.ui", !.providers = "F.providers"]
                   ELSE DictCopy(DEFAULT_CONFIG)
    /\ last_op' = "construct"
    /\ UNCHANGED <<heap, config_ops, providers_before, conversion, voices>>

\* set(key, value), lines 177-187: the dict the dotted key leads to is changed
\* in place, a top-level key is changed in the instance's own top-level dict
SetValue(key, value) ==
    IF key = "default_provider"
    THEN /\ config' = [config EXCEPT !.default_provider = value]
         /\ UNCHANGED heap
    ELSE IF key = "output.default_directory"
    THEN /\ heap' = [heap EXCEPT ![config.output].default_directory = value]
         /\ UNCHANGED config
    ELSE /\ heap' = [heap EXCEPT ![config.ui].theme = value]
         /\ UNCHANGED config

\* a method is called on the constructed instance
Called(name) ==
    /\ last_op # "none"
    /\ config_ops < MaxConfigOps
    /\ config_ops' = config_ops + 1
    /\ last_op' = name

\* set, lines 169-187
Set ==
    /\ Called("set")
    /\ \/ \E p \in Providers : SetValue("default_provider", p)
       \/ \E d \in Directories : SetValue("output.default_directory", d)
       \/ \E t \in Themes : SetValue("ui.theme", t)
    /\ UNCHANGED <<providers_before, conversion, voices>>

\* set_output_directory, lines 339-346
SetOutputDirectory ==
    /\ Called("set_output_directory")
    /\ \E d \in Directories : SetValue("output.default_directory", d)
    /\ UNCHANGED <<providers_before, conversion, voices>>

\* set_default_provider, lines 320-327
SetDefaultProvider ==
    /\ Called("set_default_provider")
    /\ \E p \in Providers : config' = [config EXCEPT !.default_provider = p]
    /\ UNCHANGED <<heap, providers_before, conversion, voices>>

\* set_api_key, lines 238-266, with set_provider_config, lines 201-212
SetApiKey ==
    /\ Called("set_api_key")
    /\ \E p \in Providers, api_key \in {"key-1", "key-2"} :
         heap' = [heap EXCEPT ![config.providers][p] = Encrypt(api_key)]
    /\ UNCHANGED <<config, providers_before, conversion, voices>>

\* reset_to_defaults, lines 348-357
ResetToDefaults ==
    /\ Called("reset_to_defaults")
    /\ providers_before' = heap[config.providers]
    /\ config' = [DictCopy(DEFAULT_CONFIG) EXCEPT !.providers = config.providers]
    /\ UNCHANGED <<heap, conversion, voices>>

ConfigNext ==
    \/ Construct
    \/ Set
    \/ SetOutputDirectory
    \/ SetDefaultProvider
    \/ SetApiKey
    \/ ResetToDefaults

ConfigSpec == Idle /\ [][ConfigNext]_vars

(***************************************************************************)
(* InputHandler.prepare_text_for_tts (core/input_handler.py, 180-329)      *)
(*                                                                         *)
(* _clean_text leaves words separated by single blanks, so a string is     *)
(* known by the lengths of its words, and a chunk by its length.           *)
(***************************************************************************)
\* sentences in a text
MaxSentences == 2

\* words in a sentence
MaxWords == 2

\* lengths of a word
WordLengths == {2, 3, 7}

\* the max_length argument: None (0), 3, 5, 8
MaxLengths == {0, 3, 5, 8}

\* the sequences over S of 1 to n elements
RECURSIVE SeqsUpTo(_, _)
SeqsUpTo(S, n) ==
    IF n = 0 THEN {}
    ELSE LET shorter == SeqsUpTo(S, n - 1)
         IN  {<<x>> : x \in S} \cup shorter \cup
             {Append(q, x) : q \in shorter, x \in S}

\* texts: the empty one, and up to MaxSentences sentences of up to MaxWords words
Texts == {<<>>} \cup SeqsUpTo(SeqsUpTo(WordLengths, MaxWords), MaxSentences)

\* len() of words joined by single blanks
RECURSIVE JoinedLength(_)
JoinedLength(lengths) ==
    IF lengths = <<>> THEN 0
    ELSE IF Len(lengths) = 1 THEN Head(lengths)
    ELSE Head(lengths) + 1 + JoinedLength(Tail(lengths))

\* len() of each sentence of a text
RECURSIVE SentenceLengths(_)
SentenceLengths(text) ==
    IF text = <<>> THEN <<>>
    ELSE <<JoinedLength(Head(text))>> \o SentenceLengths(Tail(text))

\* the loop of _split_long_sentence, lines 314-324, and its end, 326-329
RECURSIVE SplitWords(_, _, _, _)
SplitWords(words, max, chunks, current_chunk) ==
    IF words = <<>>
    THEN IF current_chunk > 0 THEN Append(chunks, current_chunk) ELSE chunks
    ELSE LET word == Head(words)
         IN  IF current_chunk + word + 1 > max
             THEN IF current_chunk > 0
                  THEN SplitWords(Tail(words), max, Append(chunks, current_chunk), word)
                  ELSE SplitWords(Tail(words), max, Append(chunks, Min(word, max)),
                                  word - Min(word, max))
             ELSE SplitWords(Tail(words), max, chunks,
                             IF current_chunk > 0 THEN current_chunk + 1 + word
                             ELSE word)

\* _split_long_sentence, lines 296-329
SplitLongSentence(words, max) ==
    IF JoinedLength(words) <= max
    THEN <<JoinedLength(words)>>
    ELSE SplitWords(words, max, <<>>, 0)

\* the loop of _split_text_intelligently, lines 254-270, and its end, 272-275
RECURSIVE SplitSentences(_, _, _, _)
SplitSentences(sentences, max, chunks, current_chunk) ==
    IF sentences = <<>>
    THEN IF current_chunk > 0 THEN Append(chunks, current_chunk) ELSE chunks
    ELSE LET sentence == JoinedLength(Head(sentences))
             flushed == IF current_chunk > 0 THEN Append(chunks, current_chunk)
                        ELSE chunks
             parts == SplitLongSentence(Head(sentences), max)
         IN  IF current_chunk + sentence > max
             THEN IF sentence > max
                  THEN SplitSentences(Tail(sentences), max,
                                      flushed \o SubSeq(parts, 1, Len(parts) - 1),
                                      parts[Len(parts)])
                  ELSE SplitSentences(Tail(sentences), max, flushed, sentence)
             ELSE SplitSentences(Tail(sentences), max, chunks,
                                 IF current_chunk > 0
                                 THEN current_chunk + 1 + sentence ELSE sentence)

\* _split_text_intelligently, lines 234-275
SplitTextIntelligently(text, max) ==
    IF JoinedLength(SentenceLengths(text)) <= max
    THEN <<JoinedLength(SentenceLengths(text))>>
    ELSE SplitSentences(text, max, <<>>, 0)

\* prepare_text_for_tts, lines 180-202
PrepareText(text, max) ==
    IF max = 0 \/ JoinedLength(SentenceLengths(text)) <= max
    THEN <<JoinedLength(SentenceLengths(text))>>
    ELSE SplitTextIntelligently(text, max)

\* one call of prepare_text_for_tts on some text
PrepareTextForTts ==
    /\ text_chunks = <<>>
    /\ \E text \in Texts, max \in MaxLengths :
         /\ input_text' = text
         /\ max_length' = max
         /\ text_chunks' = PrepareText(text, max)
    /\ UNCHANGED <<pc, callback, voice_or_model, char_count, calls, output_file_path,
                   overwrite, exit_code, voices, settings, wire, status,
                   content_length, session, emitted, file, file0, fileOpen, connOpen,
                   received, streamEnded, verified, outcome, cause>>

InputNext == PrepareTextForTts

InputSpec == Idle /\ [][InputNext]_vars

(***************************************************************************)
(* Properties                                                              *)
(***************************************************************************)
LastEmitted == emitted[Len(emitted)]

ErrorKinds == {"AuthenticationError", "NetworkError", "TTSServiceError"}

\* C1: within one call the percentages passed to the progress callback never
\* decrease and all lie in 0..100, with and without a declared content length.
C1_ProgressMonotoneBounded ==
    \A i \in 1..Len(emitted) :
        /\ emitted[i] >= 0
        /\ emitted[i] <= 100
        /\ i > 1 => emitted[i - 1] <= emitted[i]

\* a successful call without a declared length that reported during streaming
C1_Witness ==
    /\ pc = "done"
    /\ outcome = Returned
    /\ content_length = None
    /\ Len(emitted) >= 9

\* C2: 100 is passed to the callback only after the file was closed and found
\* to exist with a non-zero size; when that check fails, 100 is never passed.
C2_HundredOnlyAfterVerification ==
    /\ (\E i \in 1..Len(emitted) : emitted[i] = 100) =>
          /\ verified
          /\ ~fileOpen
          /\ file.exists
          /\ ContentSize(file.content) > 0
    /\ cause = "empty" => \A i \in 1..Len(emitted) : emitted[i] # 100

\* the callback was given 100
C2_Witness ==
    /\ Len(emitted) > 0
    /\ LastEmitted = 100
    /\ verified

\* C3: an exception raised by the progress callback does not abort the
\* conversion: the call never ends because of it.
C3_CallbackFailureTolerated == cause # "callback"

\* C4 as stated: 401, 400 and 429 have their own failures, every other non-2xx
\* status is a failure carrying the status code, no 2xx status is a failure.
C4_Original ==
    /\ cause = "status" =>
          /\ status = 401 => outcome.kind = "AuthenticationError"
          /\ status = 400 => outcome = TTSServiceError("Bad request")
          /\ status = 429 => outcome = TTSServiceError("Rate limit exceeded")
          /\ status \notin {400, 401, 429} =>
                outcome.kind = "NetworkError" /\ outcome.status_code = status
    /\ (status >= 200 /\ status <= 299) => cause # "status"

\* C4 amended: 401, 400 and 429 have their own failures, every other status
\* different from 200 is a failure carrying the status code, and 200 alone is
\* not a failure.
C4_StatusClassification ==
    /\ cause = "status" =>
          /\ status = 401 => outcome.kind = "AuthenticationError"
          /\ status = 400 => outcome = TTSServiceError("Bad request")
          /\ status = 429 => outcome = TTSServiceError("Rate limit exceeded")
          /\ status \notin {400, 401, 429} =>
                outcome.kind = "NetworkError" /\ outcome.status_code = status
    /\ (status \notin {0, 200} /\ pc # "response" /\ cause # "callback") =>
          cause = "status"
    /\ status = 200 => cause # "status"

\* a 2xx status other than 200 ended the call with a failure carrying the code
C4_Witness ==
    /\ pc = "done"
    /\ status = 201
    /\ outcome = NetworkError("Fish Audio API error", 201)

\* C5: the failures differ in kind: a connection failure, a broken stream, an
\* empty body and a write failure are never reported with the kind of an HTTP
\* status failure, and 400 and 429 have different kinds.
C5_FailureKindsDistinct ==
    /\ (pc = "done" /\ cause \in {"connection", "read", "empty", "write"}) =>
          \A s \in Statuses :
              StatusError(s) # NoError => outcome.kind # StatusError(s).kind
    /\ (pc = "done" /\ cause = "status" /\ status = 400) =>
          outcome.kind # StatusError(429).kind

\* C6: a status that is a failure ends the call with that failure and the
\* destination file is never created, truncated or written.
C6_NoFileOnStatusFailure ==
    /\ status \notin {0, 200} => (file = file0 /\ ~fileOpen)
    /\ cause = "status" => (pc = "done" /\ outcome.kind \in ErrorKinds)

\* a 401 left an existing destination file as it was
C6_Witness ==
    /\ cause = "status"
    /\ status = 401
    /\ outcome.kind = "AuthenticationError"
    /\ file0 = OldFile
    /\ file = OldFile

\* C7: once a 200 body with at least one non-empty chunk was read to its end,
\* the file holds exactly the chunks in arrival order, its size is the sum of
\* their lengths, and the call (no callback invocation raising) succeeds.
C7_FileIsConcatenation ==
    (streamEnded /\ SumSizes(received) > 0) =>
        /\ file.exists
        /\ file.content = Segments(received, 1)
        /\ ContentSize(file.content) = SumSizes(received)
        /\ (pc = "done" /\ cause # "callback") => outcome = Returned

\* a success after two non-empty chunks and an empty one
C7_Witness ==
    /\ pc = "done"
    /\ outcome = Returned
    /\ Len(file.content) >= 2
    /\ \E i \in 1..Len(received) : received[i] = 0

\* C8: a 200 response whose body is empty never succeeds: the call ends with
\* the failure of the file check (TTSServiceError "Failed to save audio file").
C8_EmptyBodyFails ==
    (streamEnded /\ SumSizes(received) = 0) =>
        /\ outcome # Returned
        /\ ~verified
        /\ pc = "done" => outcome.kind = "TTSServiceError"
        /\ (pc = "done" /\ cause # "callback") =>
              (cause = "empty" /\ outcome = TTSServiceError("Failed to save audio file"))

\* an empty 200 body over an existing destination file
C8_Witness ==
    /\ pc = "done"
    /\ status = 200
    /\ streamEnded
    /\ SumSizes(received) = 0
    /\ file0 = OldFile
    /\ cause = "empty"

\* the stream with a declared positive length ended having delivered exactly it
DeclaredTotalDelivered ==
    /\ pc = "verify"
    /\ callback = "given"
    /\ content_length > 0
    /\ bytes_downloaded = content_length

LateChunkStep ==
    /\ pc = "stream"
    /\ pc' = "stream"
    /\ content_length = None
    /\ callback = "given"
    /\ lateChunks' = lateChunks + 1

\* C10: without a declared length, every chunk that arrives more than 0.5 s
\* after the last emission raises the emitted percentage by at least one point
\* until 90 is emitted (so 90 is emitted after at most 50 such chunks), and the
\* emitted percentages never decrease nor exceed 90 while streaming.
C10_UndeclaredReaches90 ==
    /\ []((pc \in {"stream", "verify"} /\ content_length = None /\ callback = "given") =>
            /\ LastEmitted >= Min(90, 40 + lateChunks)
            /\ LastEmitted <= 90)
    /\ [][LateChunkStep => LastEmitted' >= Min(90, LastEmitted + 1)]_vars
    /\ [][(pc = "stream" /\ callback = "given") => LastEmitted' >= LastEmitted]_vars

\* 90 was emitted while streaming without a declared length
C10_Witness ==
    /\ pc = "stream"
    /\ content_length = None
    /\ lateChunks >= 2
    /\ LastEmitted = 90

\* C11: for every text length n the request timeout is
\* 60 + min(240, (n // 1000) * 10) seconds: 210 for n = 15000, never smaller
\* than the timeout of a shorter text, and always within 60..300.
C11_TimeoutFormula ==
    total_timeout # 0 =>
        /\ total_timeout = 60 + Min(240, (char_count \div 1000) * 10)
        /\ char_count = 15000 => total_timeout = 210
        /\ \A m \in Lengths : m <= char_count => TotalTimeout(m) <= total_timeout
        /\ total_timeout >= 60
        /\ total_timeout <= 300

\* the timeout of a text beyond the cap was computed, and it is 300
C11_Witness ==
    /\ pc = "client"
    /\ char_count > 24000
    /\ total_timeout = 300

\* C12: one call opens one connection and sends at most one POST; once a
\* response arrived, or the call ended by a status, a connection failure, a
\* failure while streaming, the file check or with success, exactly one of
\* each was made: nothing is sent again.
C12_OneConnectionOnePost ==
    /\ connections <= 1
    /\ posts <= 1
    /\ connOpen => connections = 1
    /\ (\/ status # 0
        \/ cause \in {"status", "connection", "read", "write", "empty"}
        \/ outcome = Returned) => (connections = 1 /\ posts = 1)

\* the call ended by a connection failure after its only POST
C12_Witness ==
    /\ pc = "done"
    /\ cause = "connection"
    /\ connections = 1
    /\ posts = 1

\* C13: when the call has returned or raised (success, an error status, an
\* exception while a chunk is read or written, a caller interrupt during
\* streaming), the file handle and the connection are closed; they are closed
\* already when the file is verified.
C13_ResourcesReleased ==
    /\ pc \in {"verify", "verified", "done"} => (~fileOpen /\ ~connOpen)
    /\ fileOpen => (connOpen /\ pc = "stream")

\* an interrupt after a chunk was written, with both resources released
C13_Witness ==
    /\ pc = "done"
    /\ cause = "interrupt"
    /\ outcome.kind = "KeyboardInterrupt"
    /\ Len(file.content) >= 1
    /\ ~fileOpen
    /\ ~connOpen

C15_CallsIndependent ==
    calls = 2 =>
        /\ Len(emitted) > 0 => emitted[1] = 5
        /\ posts <= 1
        /\ connections <= 1
        /\ (status # 0 \/ outcome = Returned) => (posts = 1 /\ connections = 1)
        /\ pc = "stream" =>
              /\ bytes_downloaded = SumSizes(received)
              /\ file.content = Segments(received, 1)
              /\ download_start_time >= start_time
              /\ last_progress_update >= download_start_time
              /\ IntPart(last_reported_progress, Scale(content_length)) = LastEmitted
        /\ (streamEnded \/ outcome = Returned) =>
              /\ file.content = Segments(received, 1)
              /\ ContentSize(file.content) = SumSizes(received)
        /\ outcome = Returned => (SumSizes(received) > 0 /\ LastEmitted = 100)

\* both calls succeeded, the second some time after the first began and with
\* another body, which alone is in the file
C15_Witness ==
    /\ calls = 2
    /\ outcome = Returned
    /\ start_time > 0
    /\ FileSaved(file0)
    /\ file0.content # file.content
    /\ file.content = Segments(received, 1)

\* the chunks written before the stream failed: all that were received, but
\* the last one when writing it is what failed
WrittenBeforeFailure ==
    IF cause = "write"
    THEN Segments(SubSeq(received, 1, Len(received) - 1), 1)
    ELSE Segments(received, 1)

\* C16: when reading a chunk or writing a later chunk fails after k chunks were
\* written, the call ends with an error and the file stays on disk with
\* exactly those k chunks in arrival order.
C16_PartialFileKept ==
    (pc = "done" /\ cause \in {"read", "write"} /\ streamEnded = FALSE
       /\ (cause = "write" => Len(received) > 0)) =>
        /\ outcome.kind \in ErrorKinds
        /\ file.exists
        /\ file.content = WrittenBeforeFailure
        /\ ContentSize(file.content) = SumSizes(received) -
              (IF cause = "write" THEN received[Len(received)] ELSE 0)

\* a read error after two chunks were written over an older file
C16_Witness ==
    /\ pc = "done"
    /\ cause = "read"
    /\ file0 = OldFile
    /\ Len(file.content) = 2
    /\ file.content = Segments(received, 1)

\* a write error on the third chunk, two chunks on disk
C16_WitnessWrite ==
    /\ pc = "done"
    /\ cause = "write"
    /\ Len(received) = 3
    /\ Len(file.content) = 2

C18_ExistingFileKept ==
    (pc = "exited" /\ ~overwrite /\ file0.exists) => file = file0

\* C19: every get_available_voices call made with a key the service answers
\* with 401 raises AuthenticationError, whatever was called before (a call in
\* which the service could not be reached at all is left aside).
C19_RejectedKeyRaises ==
    \A i \in 1..Len(voice_calls) :
        (voice_calls[i].key = "revoked" /\ voice_calls[i].answer # Unset) =>
            voice_calls[i].result = "AuthenticationError"

\* the settings other than providers as get() reads them
SettingsRead ==
    [default_provider |-> config.default_provider,
     output |-> heap[config.output],
     ui |-> heap[config.ui]]

\* the default values as DEFAULT_CONFIG is written
WrittenDefaults ==
    [default_provider |-> "fish_audio",
     output |-> [default_directory |-> "./voiceforge_output"],
     ui |-> [theme |-> "dark"]]

\* C20: right after reset_to_defaults, whatever setters were called before,
\* every setting other than providers has its default value again and the
\* providers entry with its API keys is what it was before the reset.
C20_ResetRestoresDefaults ==
    last_op = "reset_to_defaults" =>
        /\ SettingsRead = WrittenDefaults
        /\ heap[config.providers] = providers_before

\* C21: for a positive max_length every chunk prepare_text_for_tts returns is
\* at most max_length long.
C21_ChunksWithinMax ==
    max_length > 0 =>
        \A i \in 1..Len(text_chunks) : text_chunks[i] <= max_length

\* a step of the loop with a declared length in which the callback is invoked
DeclaredEmission ==
    /\ pc = "stream"
    /\ content_length # None
    /\ Len(emitted') = Len(emitted) + 1

\* 40 + (bytes_downloaded / T) * 50 clamped to 40..90, in units of 1/(2 * T)
ClampedShare(bytes, T) == Min(90 * 2 * T, Max(40 * 2 * T, 40 * 2 * T + 100 * bytes))

\* C22: with a declared total T > 0, every percentage emitted while streaming
\* is 40 + (bytes_downloaded / T) * 50 clamped to 40..90 and truncated, and it
\* is emitted only when that value exceeds the last reported one by more than 1.
C22_DeclaredFormula ==
    [][DeclaredEmission =>
         /\ content_length > 0
         /\ LastEmitted' = ClampedShare(bytes_downloaded', content_length)
                               \div (2 * content_length)
         /\ ClampedShare(bytes_downloaded', content_length)
               > last_reported_progress + 2 * content_length
         /\ LastEmitted' > LastEmitted]_vars

\* of 8292 declared bytes the first 100 were not reported and the next 100 were
C22_Witness ==
    /\ pc = "stream"
    /\ content_length = 8292
    /\ bytes_downloaded = 200
    /\ Len(received) = 2
    /\ Len(emitted) = 6
    /\ LastEmitted = 41

\* a step of the loop without a declared length in which the callback is invoked
UndeclaredEmission ==
    /\ pc = "stream"
    /\ content_length = None
    /\ Len(emitted') = Len(emitted) + 1

\* 40 + time_component + size_component, by the size received and the seconds
\* elapsed since the download began, in units of 1/ScaleB
TierEstimate(bytes, elapsed) ==
    40 * ScaleB +
    CASE bytes > 2 * MB -> TimeFactor(elapsed, 40, 8) + SizeFactor(bytes, 10, 2)
      [] bytes > MB /\ bytes <= 2 * MB ->
                           TimeFactor(elapsed, 35, 10) + SizeFactor(bytes, 15, 3)
      [] OTHER -> TimeFactor(elapsed, 30, 12) + SizeFactor(bytes, 20, 8)

\* min(90, max(estimated, previous_reported + 1)) after the step
FlooredEstimate ==
    Min(90 * ScaleB,
        Max(TierEstimate(bytes_downloaded', now' - download_start_time),
            last_reported_progress + ScaleB))

\* C23 as stated: without a declared total each emitted percentage equals
\* min(90, max(estimated, previous_reported + 1)), and consecutive emitted
\* values strictly increase.
C23_Original ==
    [][UndeclaredEmission =>
         /\ LastEmitted' * ScaleB = FlooredEstimate
         /\ LastEmitted' > LastEmitted]_vars

\* C23 amended: without a declared total each emitted percentage equals the
\* integer part of min(90, max(estimated, previous_reported + 1)), where
\* previous_reported is the value last reported before truncation and the tiers
\* are: more than 2MB, more than 1MB up to 2MB, up to 1MB; consecutive emitted
\* values strictly increase, also when the tier changes and the estimate drops.
C23_UndeclaredFormula ==
    [][UndeclaredEmission =>
         /\ LastEmitted' = FlooredEstimate \div ScaleB
         /\ LastEmitted' > LastEmitted]_vars

\* the medium tier was entered, its estimate is below the 48 reported in the
\* small tier, and 49 was reported
C23_Witness ==
    /\ pc = "stream"
    /\ content_length = None
    /\ bytes_downloaded = MB + 100
    /\ Len(emitted) = 7
    /\ emitted[6] = 48
    /\ LastEmitted = 49
    /\ TierEstimate(bytes_downloaded, now - download_start_time) < 48 * ScaleB

\* a non-empty chunk is written without a declared length, the callback is
\* given and less than 90 was reported so far
UndeclaredChunkBelow90 ==
    /\ pc = "stream"
    /\ content_length = None
    /\ callback = "given"
    /\ last_reported_progress < 90 * ScaleB
    /\ bytes_downloaded' > bytes_downloaded

\* the cumulative size passed a multiple of 64KB with the chunk
CrossedBoundary ==
    bytes_downloaded' \div (64 * 1024) > bytes_downloaded \div (64 * 1024)

\* C24 as stated: such a chunk leads to a callback invocation when and only
\* when at least 0.5 s have elapsed since the last emission or the cumulative
\* size crossed a new 64KB boundary with the chunk.
C24_Original ==
    [][UndeclaredChunkBelow90 =>
         (Len(emitted') > Len(emitted) <=>
            (now' - last_progress_update >= 2 \/ CrossedBoundary))]_vars

\* C24 amended: such a chunk leads to a callback invocation when and only when
\* more than 0.5 s have elapsed since the last emission or the cumulative size
\* after the chunk is an exact multiple of 64KB.
C24_EmissionCadence ==
    [][UndeclaredChunkBelow90 =>
         (Len(emitted') > Len(emitted) <=>
            (now' - last_progress_update > 2 \/ bytes_downloaded' % 65536 = 0))]_vars

\* two chunks passed sixteen 64KB boundaries within exactly 0.5 s and nothing
\* was reported
C24_Witness ==
    /\ pc = "stream"
    /\ content_length = None
    /\ callback = "given"
    /\ bytes_downloaded = MB + 100
    /\ now - last_progress_update = 2
    /\ Len(emitted) = 5

\* the stage of a call by its position: 1 Preparing (up to the request built),
\* 2 Sending (up to the status dispatch), 3 Receiving (up to the end of the
\* stream), 4 Verifying, 5 ended
Stage(at) ==
    CASE at = "start" -> 1
      [] at \in {"prepared", "client", "response"} -> 2
      [] at \in {"accepted", "stream"} -> 3
      [] at \in {"verify", "verified"} -> 4
      [] at = "done" -> 5

\* the band of percentages of a stage
Band(stage) ==
    CASE stage = 1 -> 0..10
      [] stage = 2 -> 10..25
      [] stage = 3 -> 25..90
      [] stage = 4 -> 90..100
      [] stage = 5 -> {}

\* C25: a call passes its stages in the order Preparing, Sending, Receiving,
\* Verifying and ends succeeded or failed, after which nothing is emitted or
\* written; a percentage emitted in a stage lies in the stage's band; a
\* connection error or a failure status ends the call failed with no progress
\* of the Receiving stage and nothing written.
C25_StagesInOrder ==
    /\ [][/\ Stage(pc') \in {Stage(pc), Stage(pc) + 1, 5}
          /\ Len(emitted') > Len(emitted) => LastEmitted' \in Band(Stage(pc))
          /\ outcome' = Returned => Stage(pc) = 4
          /\ pc # "done"]_vars
    /\ [](/\ pc = "done" <=> outcome # Pending
          /\ status \notin {0, 200} => Stage(pc) \in {2, 5}
          /\ (cause \in {"connection", "status"} \/ (pc = "done" /\ status \notin {0, 200})) =>
                /\ pc = "done"
                /\ outcome # Returned
                /\ \A i \in 1..Len(emitted) : emitted[i] <= 25
                /\ received = <<>>
                /\ bytes_downloaded = 0
                /\ file = file0
                /\ ~fileOpen)

\* a connection error ended the call after 5, 10 and 15
C25_Witness ==
    /\ pc = "done"
    /\ cause = "connection"
    /\ outcome = TTSServiceError("Conversion failed")
    /\ emitted = <<5, 10, 15>>
    /\ file = file0

\* C26: the output file is closed and the response released after the last
\* chunk and before the verification: the steps that report 95 and 100 and
\* check the file run with the handle closed, the stream at its end and every
\* chunk written, and they do not write.
C26_ClosedBeforeVerification ==
    /\ [][(pc \in {"verify", "verified"}) =>
            (~fileOpen /\ ~connOpen /\ streamEnded /\ file' = file)]_vars
    /\ []((verified \/ cause = "empty" \/ \E i \in 1..Len(emitted) : emitted[i] >= 95) =>
            /\ streamEnded
            /\ ~fileOpen
            /\ ~connOpen
            /\ file.content = Segments(received, 1))
    /\ [](fileOpen => (~streamEnded /\ \A i \in 1..Len(emitted) : emitted[i] <= 90))

\* the file of three chunks was checked after it was closed, before 100
C26_Witness ==
    /\ pc = "verified"
    /\ verified
    /\ ~fileOpen
    /\ Len(file.content) = 3
    /\ callback = "given"
    /\ LastEmitted = 95

\* C27: the integers passed to the callback in one call strictly increase, and
\* those passed while chunks are streamed lie in 41..90, so that at most 50 are
\* passed while streaming whatever the chunks and the clock.
C27_StrictlyIncreasing ==
    /\ [](\A i, j \in 1..Len(emitted) : i < j => emitted[i] < emitted[j])
    /\ [](Cardinality({i \in 1..Len(emitted) : emitted[i] \in 41..90}) <= 50)
    /\ [][(pc = "stream" /\ Len(emitted') > Len(emitted)) =>
            (LastEmitted' \in 41..90 /\ LastEmitted' > LastEmitted)]_vars

\* 90 was reported after two chunks and the third chunk reported nothing
C27_Witness ==
    /\ pc = "stream"
    /\ callback = "given"
    /\ Len(received) = 3
    /\ received[3] # 0
    /\ emitted = <<5, 10, 15, 25, 40, 86, 90>>

\* C28: when a 200 response declares a content length of 0 and delivers
\* chunks, nothing is divided by the length and nothing is reported while
\* streaming (40 is followed by 95), every chunk is written, and the call
\* succeeds if the body is not empty.
C28_ZeroLengthDeclared ==
    (content_length = 0 /\ status = 200) =>
        /\ cause # "division"
        /\ \A i \in 1..Len(emitted) : emitted[i] \in {5, 10, 15, 25, 40, 95, 100}
        /\ (pc \in {"stream", "verify", "verified"} \/ streamEnded) =>
              file.content = Segments(received, 1)
        /\ (pc = "done" /\ streamEnded /\ SumSizes(received) > 0 /\ cause # "callback") =>
              outcome = Returned

\* a declared length of 0, two chunks written, success after 40, 95, 100
C28_Witness ==
    /\ pc = "done"
    /\ content_length = 0
    /\ outcome = Returned
    /\ Len(file.content) >= 2
    /\ emitted = <<5, 10, 15, 25, 40, 95, 100>>

\* the destination file was opened by this call
Opened ==
    \/ pc \in {"stream", "verify", "verified"}
    \/ streamEnded
    \/ Len(received) > 0
    \/ cause \in {"read", "interrupt"}

\* C29: once the file was opened for an accepted 200 response it holds only
\* bytes of this response: what was at the path before the call is gone from
\* the moment of the open, also when the call then fails on an empty body or a
\* broken stream.
C29_OnlyCurrentResponse ==
    Opened =>
        /\ status = 200
        /\ file.exists
        /\ \A k \in 1..Len(file.content) :
              /\ file.content[k].id >= 1
              /\ file.content[k].id <= Len(received)
              /\ file.content[k].size = received[file.content[k].id]
        /\ file0 = OldFile => file # file0
        /\ cause \in {"empty", "read", "interrupt"} => ContentSize(file.content) <= SumSizes(received)

\* the stream broke before any chunk: the older file is now empty
C29_Witness ==
    /\ pc = "done"
    /\ cause = "read"
    /\ file0 = OldFile
    /\ received = <<>>
    /\ file = [exists |-> TRUE, content |-> <<>>]

\* the calls that fetched a list
Fetches == {i \in 1..Len(voice_calls) : voice_calls[i].answer = "200"}

====
